---- MODULE Spec2Model ----
(***************************************************************************)
(* Model of the nostr relay synchronisation service: the Storage layer     *)
(* (src/src/db/database.rs), the relay fetch (src/src/nostr/client.rs) and *)
(* the two nostr-sourced pipelines of src/src/services/app.rs,             *)
(* from_nostr_to_waku ("n2w") and from_nostr_to_indexdb ("n2i").  `run`    *)
(* starts one direction per process (src/src/cli/run_cmd.rs), so the two   *)
(* directions are two processes that share the database named by the       *)
(* configuration and nothing else.  Spec is one direction with kills and   *)
(* restarts, RunSpec one run of one direction, SharedSpec both directions  *)
(* on one database, StoreSpec the Storage methods called directly, and     *)
(* WakuSpec the waku-sourced direction from_waku_to_nostr ("w2n") with the *)
(* two inbound handlers of src/src/waku/pubsub.rs.                         *)
(***************************************************************************)
EXTENDS Integers, Sequences, FiniteSets, TLC

\* ------------------------------------------------------------------ bounds
\* Number of distinct nostr events the relay may come to hold.
MaxEvents == 2
\* Largest created_at an event carries.
MaxTime == 2
\* Fetch cycles started in total under Spec and RunSpec (the loop of the code
\* is endless).
MaxCycles == 2
\* Starts of the process under Spec (the first start and the restarts).
MaxRuns == 2
\* Fetch cycles started in total under SharedSpec.
MaxSharedCycles == 4
\* Capacity of the mpsc channel.  The code creates it with 100 slots
\* (app.rs:85, app.rs:157, app.rs:178); the model keeps it small.
ChanCap == 2
\* Rows one event_id may come to have in nostr_event under StoreSpec.
MaxRows == 2
\* Width of the stored integers.  The code stores a u64 in an i64 column;
\* the model keeps the two's complement casts at a small width.
Bits == 3
\* Messages the waku side delivers under WakuSpec.
MaxMsgs == 4
\* Lines the stdout pipe of the waku child process holds before the child's
\* write blocks (the buffer of an OS pipe; the model keeps it small).
PipeCap == 1
\* The filter limit under LimitSpec: the 100 of FilterConfig::default scaled
\* down, so that the relay of the model can hold more matching events than
\* one batch takes.
SmallLimit == 1

Procs == {"n2w", "n2i"}
EventIds == 1..MaxEvents
Stamps == 1..MaxTime
Modulus == 2 ^ Bits
Half == 2 ^ (Bits - 1)
U64 == 0..(Modulus - 1)

VARIABLES
    relay,            \* relay[e]: created_at of event e, 0 while unpublished
    last_update,      \* table last_update: the stored i64 values, in id order
    nostr_event,      \* table nostr_event: nostr_event[e] = rows with event_id e
    pc,               \* pc[p]: where process p stands
    runs,             \* runs[p]: times process p was started
    cycles,           \* fetch cycles started so far
    last_fetch_time,  \* the local of the fetch loop
    events,           \* the part of the fetched batch still to iterate
    chan,             \* the mpsc channel between the loop and the spawned task
    rx_alive,         \* whether the spawned consumer task still holds rx
    w,                \* value the latest get_last_update returned to p
    sent,             \* sent[p][e]: tx.send of e that succeeded in this run
    posted,           \* posted[p]: events an outbound POST was made for, over all runs
    fetched,          \* fetched[p]: events a fetch returned to p, over all runs
    seen_at_start,    \* ids the ledger held when the current run of p started
    queued,           \* queued[p]: the events tx.send put on the channel, in order, this run
    handed,           \* handed[p]: the events an outbound POST was made for, in order, this run
    mark,             \* mark[p]: Len(queued[p]) when the current cycle began
    skipped,          \* skipped[p]: events is_event_existed answered None for, this cycle
    status,           \* status[p]: how the consumer's latest iteration of this run ended
    panicked,         \* panicked[p]: the call whose unwrap ended the main task, "none" if none did
    malformed,        \* events whose content the n2i consumer found not to be an invite
    call,             \* the latest direct call of a Storage method (StoreSpec)
    listener,         \* w2n: the inbound handler attached, "none" before the start
    delivered,        \* w2n: messages the waku side has produced so far
    stdout,           \* w2n: lines written by the waku child and not yet read
    wchan,            \* w2n: the mpsc channel between the handler and the loop
    wrx_alive,        \* w2n: whether the receiving half of that channel still exists
    handler,          \* w2n: "idle", "blocked" in tx.send, or "panicked"
    line,             \* w2n: the message the handler holds while in tx.send, 0 if none
    waited,           \* w2n: messages whose tx.send found the channel full
    got,              \* w2n: messages rx.recv returned to the loop
    send_event_calls, \* w2n: messages passed to NostrClient::send_event
    limit,            \* the limit of the filter of NostrClient (self.filter.limit)
    cut,              \* cut[p]: events that matched a fetch of p and that the limit left out of its batch
    other_run         \* the `run` given a direction that is none of n2w, w2n, n2i: <<direction, outcome>>

logvars == <<queued, handed, mark, skipped, status, panicked, malformed>>
pipevars == <<relay, pc, runs, cycles, last_fetch_time, events, chan, rx_alive,
              w, sent, posted, fetched, seen_at_start, logvars>>
w2nvars == <<listener, delivered, stdout, wchan, wrx_alive, handler, line,
             waited, got, send_event_calls>>
limitvars == <<limit, cut>>
vars == <<relay, last_update, nostr_event, pc, runs, cycles, last_fetch_time,
          events, chan, rx_alive, w, sent, posted, fetched, seen_at_start,
          logvars, call, w2nvars, limitvars, other_run>>

Max(a, b) == IF a >= b THEN a ELSE b

\* ---------------------------------------------------------------- Storage
\* `x as i64` of a u64 and `x as u64` of an i64 (database.rs:73,76,92).
AsI64(u) == IF u >= Half THEN u - Modulus ELSE u
AsU64(i) == IF i < 0 THEN i + Modulus ELSE i

\* LastUpdateEntity::find().one(conn): the first row of the table, if any.
\* The result is a sequence of length 0 (None) or 1 (Some(row)).
find_one(tbl) == IF Len(tbl) = 0 THEN <<>> ELSE <<tbl[1]>>

\* The insert of get_last_update's None arm: a new row, whatever the table
\* holds by then (the id column is auto-increment, nothing else is a key).
insert_last_update(tbl, init) == Append(tbl, AsI64(init))

\* get_last_update with a Some arm that answers `init` instead of the row.
get_last_update_ignores_row(tbl, init) ==
    IF find_one(tbl) # <<>>
    THEN <<init, tbl>>
    ELSE <<init, insert_last_update(tbl, init)>>

\* get_last_update run without interruption: <<returned value, table after>>.
get_last_update(tbl, init) ==
    IF find_one(tbl) # <<>>
    THEN <<AsU64(find_one(tbl)[1]), tbl>>
    ELSE <<init, insert_last_update(tbl, init)>>

\* update_last_update: the row found is rewritten with `last`; no row, no write.
update_last_update(tbl, last) ==
    IF find_one(tbl) # <<>>
    THEN [tbl EXCEPT ![1] = AsI64(last)]
    ELSE tbl

\* NostrEventEntity::find().filter(event_id = id).one(conn): Err when the
\* query fails, else Ok(Some(row)) or Ok(None).
find_event(tbl, id, query_ok) ==
    IF ~query_ok THEN "Err"
    ELSE IF tbl[id] > 0 THEN "OkSome" ELSE "OkNone"

\* is_event_existed: Some(()) (TRUE) exactly when the query is_ok().
is_event_existed(tbl, id, query_ok) == find_event(tbl, id, query_ok) # "Err"

\* add_new_event that inserts nothing.
add_new_event_lost(tbl, id) == tbl

\* add_new_event: one more row with this event_id.
add_new_event(tbl, id) == [tbl EXCEPT ![id] = @ + 1]

\* ------------------------------------------------------------ nostr relay
\* Filter::since: created_at >= since; Filter::limit caps the batch.
FilterLimit == 100

Matching(rl, since) == {e \in EventIds : rl[e] # 0 /\ rl[e] >= since}

\* The events of set S as a sequence, newest first, ties by id.
RECURSIVE NewestFirst(_, _)
NewestFirst(rl, S) ==
    IF S = {} THEN <<>>
    ELSE LET top == CHOOSE e \in S :
                      \A f \in S : rl[e] > rl[f] \/ (rl[e] = rl[f] /\ e <= f)
         IN  <<top>> \o NewestFirst(rl, S \ {top})

Take(s, n) == SubSeq(s, 1, IF Len(s) < n THEN Len(s) ELSE n)

\* NostrClient::fetch_from_relay(since) when the fetch succeeds.
fetch_from_relay(rl, since) == Take(NewestFirst(rl, Matching(rl, since)), limit)

Range(s) == {s[i] : i \in 1..Len(s)}

\* How often e occurs in the sequence s.
Count(s, e) == Cardinality({i \in 1..Len(s) : s[i] = e})

\* The largest created_at among the events of S, 0 for none.
MaxStamp(rl, S) == IF S = {} THEN 0 ELSE CHOOSE t \in {rl[e] : e \in S} : \A e \in S : rl[e] <= t

\* The value get_last_update(0) returns to direction q as the table stands.
\* The method takes no direction and the table has no direction column:
\* every direction reads the same row.
WatermarkOf(q) == get_last_update(last_update, 0)[1]

\* The database backends sea_orm tells apart in setup_db.
Backends == {"MySql", "Postgres", "Sqlite"}

\* setup_db(base_url, db_name) of `migrate`, on a database that holds the
\* tables lu (last_update) and ne (nostr_event):
\* <<result, last_update after, nostr_event after>>.  MySql creates the
\* database if it does not exist, Sqlite takes it as it is, Postgres drops
\* it and creates it anew; DROP DATABASE is refused, and the `?` returns the
\* Err, while another session is connected to it.  Migrator::up creates both
\* tables if_not_exists and touches no row.
setup_db(backend, in_use, lu, ne) ==
    IF backend = "Postgres"
    THEN IF in_use
         THEN <<"Err", lu, ne>>
         ELSE <<"Ok", <<>>, [e \in EventIds |-> 0]>>
    ELSE <<"Ok", lu, ne>>

\* No Storage method was called directly yet.  `written` is the u64 the
\* latest write of the watermark was given.
NoCall == [op |-> "none", arg |-> 0, ok |-> TRUE, ret |-> 0, some |-> FALSE,
           written |-> 0, backend |-> "none", lu_before |-> <<>>,
           ne_before |-> [e \in EventIds |-> 0]]

\* No `run` with another direction was made.
NoRun == <<"", "none">>

\* ------------------------------------------------------------------- Init
\* The migrations have created both tables, empty; no process runs yet and
\* the relay holds no event.  l is the limit of the filter.
InitWith(l) ==
    /\ limit = l
    /\ relay = [e \in EventIds |-> 0]
    /\ last_update = <<>>
    /\ nostr_event = [e \in EventIds |-> 0]
    /\ pc = [p \in Procs |-> "down"]
    /\ runs = [p \in Procs |-> 0]
    /\ cycles = 0
    /\ last_fetch_time = [p \in Procs |-> 0]
    /\ events = [p \in Procs |-> <<>>]
    /\ chan = [p \in Procs |-> <<>>]
    /\ rx_alive = [p \in Procs |-> FALSE]
    /\ w = [p \in Procs |-> 0]
    /\ sent = [p \in Procs |-> [e \in EventIds |-> 0]]
    /\ posted = [p \in Procs |-> {}]
    /\ fetched = [p \in Procs |-> {}]
    /\ seen_at_start = [p \in Procs |-> {}]
    /\ queued = [p \in Procs |-> <<>>]
    /\ handed = [p \in Procs |-> <<>>]
    /\ mark = [p \in Procs |-> 0]
    /\ skipped = [p \in Procs |-> {}]
    /\ status = [p \in Procs |-> "none"]
    /\ panicked = [p \in Procs |-> "none"]
    /\ malformed = {}
    /\ call = NoCall
    /\ listener = "none"
    /\ delivered = 0
    /\ stdout = <<>>
    /\ wchan = <<>>
    /\ wrx_alive = FALSE
    /\ handler = "idle"
    /\ line = 0
    /\ waited = {}
    /\ got = {}
    /\ send_event_calls = {}
    /\ cut = [p \in Procs |-> {}]
    /\ other_run = NoRun

\* NostrClient::new takes FilterConfig::default: limit 100.
Init == InitWith(FilterLimit)

\* The same start with the limit scaled down to the size of the model.
InitSmallLimit == InitWith(SmallLimit)

\* ------------------------------------------------------------ environment
\* Somebody publishes event e with created_at t on the relay.
Publish(e, t) ==
    /\ relay[e] = 0
    /\ relay' = [relay EXCEPT ![e] = t]
    /\ UNCHANGED <<last_update, nostr_event, pc, runs, cycles, last_fetch_time,
                   events, chan, rx_alive, w, sent, posted, fetched,
                   seen_at_start, logvars, call, w2nvars, limitvars, other_run>>

\* `run --direction p`: from_nostr_to_waku / from_nostr_to_indexdb begins: the
\* channel is created, the consumer task is spawned, the loop is entered.
\* The calls RunCmd::run makes before it enters a pipeline, in order; each
\* one is unwrapped (App::new's `?` is unwrapped by run), so a failure of
\* any of them panics main before the loop is entered.
StartupCalls == {"load_config", "Storage::new", "NostrClient::new", "WakuClient::new"}

\* Exit code of the process of direction p: a panic in #[tokio::main] main
\* unwinds out of main, which the runtime turns into exit code 101.
exit_code(p) == IF panicked[p] = "none" THEN 0 ELSE 101

StartBody(p) ==
    /\ pc' = [pc EXCEPT ![p] = "get_find"]
    /\ cycles' = cycles + 1
    /\ chan' = [chan EXCEPT ![p] = <<>>]
    /\ rx_alive' = [rx_alive EXCEPT ![p] = TRUE]
    /\ events' = [events EXCEPT ![p] = <<>>]
    /\ last_fetch_time' = [last_fetch_time EXCEPT ![p] = 0]
    /\ sent' = [sent EXCEPT ![p] = [e \in EventIds |-> 0]]
    /\ seen_at_start' = [seen_at_start EXCEPT ![p] = {e \in EventIds : nostr_event[e] > 0}]
    /\ queued' = [queued EXCEPT ![p] = <<>>]
    /\ handed' = [handed EXCEPT ![p] = <<>>]
    /\ mark' = [mark EXCEPT ![p] = 0]
    /\ skipped' = [skipped EXCEPT ![p] = {}]
    /\ status' = [status EXCEPT ![p] = "none"]
    /\ panicked' = [panicked EXCEPT ![p] = "none"]

\* A start that writes the watermark row before the waku node is created.
StartWritesFirst(p) ==
    /\ pc[p] = "down"
    /\ runs' = [runs EXCEPT ![p] = @ + 1]
    /\ \E failed \in StartupCalls \cup {"none"} :
         IF failed = "none"
         THEN /\ StartBody(p)
              /\ UNCHANGED <<relay, last_update, nostr_event, w, posted, fetched,
                             malformed, call, w2nvars, limitvars, other_run>>
         ELSE /\ panicked' = [panicked EXCEPT ![p] = failed]
              /\ last_update' = IF failed = "WakuClient::new"
                                   THEN insert_last_update(last_update, 0)
                                   ELSE last_update
              /\ UNCHANGED <<relay, nostr_event, pc, cycles, last_fetch_time,
                             events, chan, rx_alive, w, sent, posted, fetched,
                             seen_at_start, queued, handed, mark, skipped,
                             status, malformed, call, w2nvars, limitvars, other_run>>

\* `run -d <direction>`: load_config, App::new (Storage::new,
\* NostrClient::new, WakuClient::new), then the pipeline of the direction.
\* `failed` names the startup call that fails, "none" when all succeed.
Start(p) ==
    /\ pc[p] = "down"
    /\ runs' = [runs EXCEPT ![p] = @ + 1]
    /\ \E failed \in StartupCalls \cup {"none"} :
         IF failed = "none"
         THEN /\ StartBody(p)
              /\ UNCHANGED <<relay, last_update, nostr_event, w, posted, fetched,
                             malformed, call, w2nvars, limitvars, other_run>>
         ELSE /\ panicked' = [panicked EXCEPT ![p] = failed]
              /\ UNCHANGED <<relay, last_update, nostr_event, pc, cycles,
                             last_fetch_time, events, chan, rx_alive, w, sent,
                             posted, fetched, seen_at_start, queued, handed,
                             mark, skipped, status, malformed, call, w2nvars, limitvars, other_run>>

\* Values of --direction that match no arm of RunCmd::run.
OtherDirections == {"n2n", "N2W"}

\* `run -d <direction>` that starts the n2w pipeline whatever the direction.
RunOtherDefaults(d) ==
    /\ other_run = NoRun
    /\ pc["n2w"] = "down"
    /\ other_run' = <<d, "returned">>
    /\ runs' = [runs EXCEPT !["n2w"] = @ + 1]
    /\ StartBody("n2w")
    /\ UNCHANGED <<relay, last_update, nostr_event, w, posted, fetched,
                   malformed, call, w2nvars, limitvars>>

\* `run -d d` with d none of n2w, w2n, n2i: load_config and App::new run
\* as for any direction, then the `_` arm logs "unkown direction" and run
\* returns, and main with it.  `failed` names the startup call that
\* panics, "none" when all succeed.
RunOther(d) ==
    /\ other_run = NoRun
    /\ \E failed \in StartupCalls \cup {"none"} :
         other_run' = <<d, IF failed = "none" THEN "returned" ELSE failed>>
    /\ UNCHANGED <<relay, last_update, nostr_event, pc, runs, cycles,
                   last_fetch_time, events, chan, rx_alive, w, sent, posted,
                   fetched, seen_at_start, logvars, call, w2nvars, limitvars>>

\* The process of direction p ends: everything in memory is gone, the
\* database stays.  `why` names the call whose unwrap panicked in the main
\* task ("none" when the process was ended from outside).
Exit(p, why) ==
    /\ pc' = [pc EXCEPT ![p] = "down"]
    /\ chan' = [chan EXCEPT ![p] = <<>>]
    /\ rx_alive' = [rx_alive EXCEPT ![p] = FALSE]
    /\ events' = [events EXCEPT ![p] = <<>>]
    /\ last_fetch_time' = [last_fetch_time EXCEPT ![p] = 0]
    /\ sent' = [sent EXCEPT ![p] = [e \in EventIds |-> 0]]
    /\ seen_at_start' = [seen_at_start EXCEPT ![p] = {}]
    /\ queued' = [queued EXCEPT ![p] = <<>>]
    /\ handed' = [handed EXCEPT ![p] = <<>>]
    /\ mark' = [mark EXCEPT ![p] = 0]
    /\ skipped' = [skipped EXCEPT ![p] = {}]
    /\ status' = [status EXCEPT ![p] = "none"]
    /\ panicked' = [panicked EXCEPT ![p] = why]

\* The process ends at an arbitrary point (kill, power loss).
Crash(p) ==
    /\ pc[p] # "down"
    /\ Exit(p, "none")
    /\ UNCHANGED <<relay, last_update, nostr_event, runs, cycles, w, posted,
                   fetched, malformed, call, w2nvars, limitvars, other_run>>

\* --------------------------------------------------------- the fetch loop
\* get_last_update(0), the find: a row gives the value, no row leads to the
\* insert; an Err is unwrapped in the main task.
GetFind(p) ==
    /\ pc[p] = "get_find"
    /\ \E db_ok \in BOOLEAN :
         IF ~db_ok
         THEN /\ Exit(p, "get_last_update")
              /\ UNCHANGED w
         ELSE /\ IF find_one(last_update) # <<>>
                 THEN /\ last_fetch_time' = [last_fetch_time EXCEPT ![p] = AsU64(find_one(last_update)[1])]
                      /\ w' = [w EXCEPT ![p] = AsU64(find_one(last_update)[1])]
                      /\ pc' = [pc EXCEPT ![p] = "fetch"]
                 ELSE /\ pc' = [pc EXCEPT ![p] = "get_insert"]
                      /\ UNCHANGED <<last_fetch_time, w>>
              /\ UNCHANGED <<events, chan, rx_alive, sent, seen_at_start, logvars>>
    /\ UNCHANGED <<relay, last_update, nostr_event, runs, cycles, posted,
                   fetched, malformed, call, w2nvars, limitvars, other_run>>

\* get_last_update(0), the insert of the None arm, and the return of init.
GetInsert(p) ==
    /\ pc[p] = "get_insert"
    /\ \E db_ok \in BOOLEAN :
         IF ~db_ok
         THEN /\ Exit(p, "get_last_update")
              /\ UNCHANGED <<last_update, w>>
         ELSE /\ last_update' = insert_last_update(last_update, 0)
              /\ last_fetch_time' = [last_fetch_time EXCEPT ![p] = 0]
              /\ w' = [w EXCEPT ![p] = 0]
              /\ pc' = [pc EXCEPT ![p] = "fetch"]
              /\ UNCHANGED <<events, chan, rx_alive, sent, seen_at_start, logvars>>
    /\ UNCHANGED <<relay, nostr_event, runs, cycles, posted, fetched,
                   malformed, call, w2nvars, limitvars, other_run>>

AfterEvent(rest) == IF rest = <<>> THEN "update" ELSE "record"

\* fetch_from_relay(last_fetch_time) returns the batch, or an error (timeout,
\* transport) that is unwrapped in the main task.
Fetch(p) ==
    /\ pc[p] = "fetch"
    /\ \E fetch_ok \in BOOLEAN :
         IF ~fetch_ok
         THEN /\ Exit(p, "fetch_from_relay")
              /\ UNCHANGED <<fetched, cut>>
         ELSE LET batch == fetch_from_relay(relay, last_fetch_time[p]) IN
              /\ events' = [events EXCEPT ![p] = batch]
              /\ fetched' = [fetched EXCEPT ![p] = @ \cup Range(batch)]
              /\ cut' = [cut EXCEPT ![p] =
                            @ \cup (Matching(relay, last_fetch_time[p]) \ Range(batch))]
              /\ pc' = [pc EXCEPT ![p] = AfterEvent(batch)]
              /\ UNCHANGED <<last_fetch_time, chan, rx_alive, sent,
                             seen_at_start, logvars>>
    /\ UNCHANGED <<relay, last_update, nostr_event, runs, cycles, w, posted,
                   malformed, call, w2nvars, limit, other_run>>

\* The loop body sending the event without recording it first.
RecordLate(p) ==
    /\ pc[p] = "record"
    /\ LET e == Head(events[p]) IN
       \E query_ok \in BOOLEAN, insert_ok \in BOOLEAN :
         IF is_event_existed(nostr_event, e, query_ok)
         THEN IF ~insert_ok
              THEN /\ Exit(p, "add_new_event")
                   /\ UNCHANGED nostr_event
              ELSE /\ last_fetch_time' = [last_fetch_time EXCEPT ![p] = Max(@, relay[e])]
                   /\ nostr_event' = nostr_event
                   /\ pc' = [pc EXCEPT ![p] = "send"]
                   /\ UNCHANGED <<events, chan, rx_alive, sent, seen_at_start,
                                  logvars>>
         ELSE /\ events' = [events EXCEPT ![p] = Tail(@)]
              /\ pc' = [pc EXCEPT ![p] = AfterEvent(Tail(events[p]))]
              /\ skipped' = [skipped EXCEPT ![p] = @ \cup {e}]
              /\ UNCHANGED <<last_fetch_time, nostr_event, chan, rx_alive,
                             sent, seen_at_start, queued, handed, mark,
                             status, panicked>>
    /\ UNCHANGED <<relay, last_update, runs, cycles, w, posted, fetched,
                   malformed, call, w2nvars, limitvars, other_run>>

\* The loop body writing the watermark with every event it records.
RecordWrites(p) ==
    /\ pc[p] = "record"
    /\ LET e == Head(events[p]) IN
       \E query_ok \in BOOLEAN, insert_ok \in BOOLEAN :
         IF is_event_existed(nostr_event, e, query_ok)
         THEN IF ~insert_ok
              THEN /\ Exit(p, "add_new_event")
                   /\ UNCHANGED <<nostr_event, last_update>>
              ELSE /\ last_fetch_time' = [last_fetch_time EXCEPT ![p] = Max(@, relay[e])]
                   /\ nostr_event' = add_new_event(nostr_event, e)
                   /\ pc' = [pc EXCEPT ![p] = "send"]
                   /\ UNCHANGED <<events, chan, rx_alive, sent, seen_at_start,
                                  logvars>>
                   /\ last_update' = update_last_update(last_update, Max(last_fetch_time[p], relay[e]))
         ELSE /\ events' = [events EXCEPT ![p] = Tail(@)]
              /\ pc' = [pc EXCEPT ![p] = AfterEvent(Tail(events[p]))]
              /\ skipped' = [skipped EXCEPT ![p] = @ \cup {e}]
              /\ UNCHANGED <<last_update, last_fetch_time, nostr_event, chan, rx_alive,
                             sent, seen_at_start, queued, handed, mark,
                             status, panicked>>
    /\ UNCHANGED <<relay, runs, cycles, w, posted, fetched, malformed, call, w2nvars, limitvars, other_run>>

\* One iteration of `for event in events`, up to tx.send: the is_event_existed
\* test, and in its Some arm the max and add_new_event, whose Err is
\* unwrapped in the main task.
Record(p) ==
    /\ pc[p] = "record"
    /\ LET e == Head(events[p]) IN
       \E query_ok \in BOOLEAN, insert_ok \in BOOLEAN :
         IF is_event_existed(nostr_event, e, query_ok)
         THEN IF ~insert_ok
              THEN /\ Exit(p, "add_new_event")
                   /\ UNCHANGED nostr_event
              ELSE /\ last_fetch_time' = [last_fetch_time EXCEPT ![p] = Max(@, relay[e])]
                   /\ nostr_event' = add_new_event(nostr_event, e)
                   /\ pc' = [pc EXCEPT ![p] = "send"]
                   /\ UNCHANGED <<events, chan, rx_alive, sent, seen_at_start,
                                  logvars>>
         ELSE /\ events' = [events EXCEPT ![p] = Tail(@)]
              /\ pc' = [pc EXCEPT ![p] = AfterEvent(Tail(events[p]))]
              /\ skipped' = [skipped EXCEPT ![p] = @ \cup {e}]
              /\ UNCHANGED <<last_fetch_time, nostr_event, chan, rx_alive,
                             sent, seen_at_start, queued, handed, mark,
                             status, panicked>>
    /\ UNCHANGED <<relay, last_update, runs, cycles, w, posted, fetched,
                   malformed, call, w2nvars, limitvars, other_run>>

\* The send as try_send would do it: a full channel discards the event.
SendLossy(p) ==
    /\ pc[p] = "send"
    /\ LET e == Head(events[p]) IN
         IF rx_alive[p] /\ Len(chan[p]) < ChanCap
         THEN /\ chan' = [chan EXCEPT ![p] = Append(@, e)]
              /\ sent' = [sent EXCEPT ![p][e] = @ + 1]
              /\ queued' = [queued EXCEPT ![p] = Append(@, e)]
         ELSE UNCHANGED <<chan, sent, queued>>
    /\ events' = [events EXCEPT ![p] = Tail(@)]
    /\ pc' = [pc EXCEPT ![p] = AfterEvent(Tail(events[p]))]
    /\ UNCHANGED <<relay, last_update, nostr_event, runs, cycles,
                   last_fetch_time, rx_alive, w, posted, fetched,
                   seen_at_start, handed, mark, skipped, status, panicked,
                   malformed, call, w2nvars, limitvars, other_run>>

\* The send as an unbounded channel would do it: it never waits.
SendUnbounded(p) ==
    /\ pc[p] = "send"
    /\ LET e == Head(events[p]) IN
         IF rx_alive[p]
         THEN /\ chan' = [chan EXCEPT ![p] = Append(@, e)]
              /\ sent' = [sent EXCEPT ![p][e] = @ + 1]
              /\ queued' = [queued EXCEPT ![p] = Append(@, e)]
         ELSE UNCHANGED <<chan, sent, queued>>
    /\ events' = [events EXCEPT ![p] = Tail(@)]
    /\ pc' = [pc EXCEPT ![p] = AfterEvent(Tail(events[p]))]
    /\ UNCHANGED <<relay, last_update, nostr_event, runs, cycles,
                   last_fetch_time, rx_alive, w, posted, fetched,
                   seen_at_start, handed, mark, skipped, status, panicked,
                   malformed, call, w2nvars, limitvars, other_run>>

\* `let _ = tx.send(event).await`: with the receiver alive the send waits for
\* a free slot; with the receiver dropped it returns Err, which is ignored.
Send(p) ==
    /\ pc[p] = "send"
    /\ LET e == Head(events[p]) IN
         IF rx_alive[p]
         THEN /\ Len(chan[p]) < ChanCap
              /\ chan' = [chan EXCEPT ![p] = Append(@, e)]
              /\ sent' = [sent EXCEPT ![p][e] = @ + 1]
              /\ queued' = [queued EXCEPT ![p] = Append(@, e)]
         ELSE UNCHANGED <<chan, sent, queued>>
    /\ events' = [events EXCEPT ![p] = Tail(@)]
    /\ pc' = [pc EXCEPT ![p] = AfterEvent(Tail(events[p]))]
    /\ UNCHANGED <<relay, last_update, nostr_event, runs, cycles,
                   last_fetch_time, rx_alive, w, posted, fetched,
                   seen_at_start, handed, mark, skipped, status, panicked,
                   malformed, call, w2nvars, limitvars, other_run>>

\* update_last_update(last_fetch_time), whose Err is unwrapped in the main
\* task; then the sleep begins.
Update(p) ==
    /\ pc[p] = "update"
    /\ \E db_ok \in BOOLEAN :
         IF ~db_ok
         THEN /\ Exit(p, "update_last_update")
              /\ UNCHANGED last_update
         ELSE /\ last_update' = update_last_update(last_update, last_fetch_time[p])
              /\ pc' = [pc EXCEPT ![p] = "sleep"]
              /\ UNCHANGED <<last_fetch_time, events, chan, rx_alive, sent,
                             seen_at_start, logvars>>
    /\ UNCHANGED <<relay, nostr_event, runs, cycles, w, posted, fetched,
                   malformed, call, w2nvars, limitvars, other_run>>

\* The 10 s sleep ends and the loop starts over.
Wake(p) ==
    /\ pc[p] = "sleep"
    /\ pc' = [pc EXCEPT ![p] = "get_find"]
    /\ cycles' = cycles + 1
    /\ mark' = [mark EXCEPT ![p] = Len(queued[p])]
    /\ skipped' = [skipped EXCEPT ![p] = {}]
    /\ UNCHANGED <<relay, last_update, nostr_event, runs, last_fetch_time,
                   events, chan, rx_alive, w, sent, posted, fetched,
                   seen_at_start, queued, handed, status, panicked,
                   malformed, call, w2nvars, limitvars, other_run>>

\* ------------------------------------------------------ the consumer task
Outcomes == {"success", "status_error", "send_error"}

\* rx.recv() taking the newest event of the channel instead of the oldest.
recv_newest(q) == <<q[Len(q)], SubSeq(q, 1, Len(q) - 1)>>

\* rx.recv() on a channel that holds an event: <<the event, the channel after>>.
recv(q) == <<Head(q), Tail(q)>>

\* A forwarding step that repeats its request.
post_twice(log, e) == Append(Append(log, e), e)

\* client.post(url)...send(): one HTTP request for event e goes out.
post(log, e) == Append(log, e)

\* What the forwarding step of direction p gives its caller after an
\* iteration that ended as `st`.  send_invite_event_to_indexdb (n2i) logs
\* the status, whichever it is, and returns Ok(()); the step of n2w is
\* inline in the consumer loop and only logs the status.  A conversion or a
\* request that fails is unwrapped: the step panics and returns nothing.
forward_result(p, st) ==
    IF st = "none" THEN "none"
    ELSE IF st \in {"send_error", "malformed"} THEN "panic"
    ELSE IF p = "n2i" THEN "Ok"
    ELSE "logged"

\* Whether the content of event e parses as the consumer of direction p needs
\* it.  n2w serialises the whole event and parses nothing.  n2i parses
\* event.content as a NostrInviteEventContent; the content is fixed when the
\* event is published and nothing reads it before this parse, so the model
\* decides it at the first parse and keeps the decision.
Converts(p, e) ==
    IF p = "n2w" THEN {TRUE}
    ELSE IF e \in malformed THEN {FALSE}
    ELSE IF e \in posted[p] THEN {TRUE}
    ELSE BOOLEAN

\* One iteration of `while let Some(event) = rx.recv().await`: the event is
\* taken, converted and POSTed.  A response of any status is logged; a
\* conversion or a request that fails is unwrapped: the task panics, rx is
\* dropped with what it holds.
Consume(p) ==
    /\ pc[p] # "down"
    /\ rx_alive[p]
    /\ chan[p] # <<>>
    /\ LET e == recv(chan[p])[1] IN
       \E converts \in Converts(p, e), outcome \in Outcomes :
         IF ~converts
         THEN /\ malformed' = malformed \cup {e}
              /\ status' = [status EXCEPT ![p] = "malformed"]
              /\ rx_alive' = [rx_alive EXCEPT ![p] = FALSE]
              /\ chan' = [chan EXCEPT ![p] = <<>>]
              /\ UNCHANGED <<posted, handed>>
         ELSE /\ posted' = [posted EXCEPT ![p] = @ \cup {e}]
              /\ handed' = [handed EXCEPT ![p] = post(@, e)]
              /\ status' = [status EXCEPT ![p] = outcome]
              /\ IF outcome = "send_error"
                 THEN /\ rx_alive' = [rx_alive EXCEPT ![p] = FALSE]
                      /\ chan' = [chan EXCEPT ![p] = <<>>]
                 ELSE /\ chan' = [chan EXCEPT ![p] = recv(chan[p])[2]]
                      /\ UNCHANGED rx_alive
              /\ UNCHANGED malformed
    /\ UNCHANGED <<relay, last_update, nostr_event, pc, runs, cycles,
                   last_fetch_time, events, w, sent, fetched, seen_at_start,
                   queued, mark, skipped, panicked, call, w2nvars, limitvars, other_run>>

\* The steps of a running process p, the start of a cycle aside.
Step(p) ==
    \/ GetFind(p)
    \/ GetInsert(p)
    \/ Fetch(p)
    \/ Record(p)
    \/ Send(p)
    \/ Update(p)
    \/ Consume(p)

\* A deployment of one direction: the n2w process or the n2i process alone on
\* the database; it may end at any point and be started again.
Next ==
    \/ \E e \in EventIds, t \in Stamps : Publish(e, t)
    \/ \E p \in Procs :
         \/ /\ runs[p] < MaxRuns
            /\ cycles < MaxCycles
            /\ \A q \in Procs \ {p} : runs[q] = 0
            /\ Start(p)
         \/ cycles < MaxCycles /\ Wake(p)
         \/ Crash(p)
         \/ Step(p)

Spec == Init /\ [][Next]_vars

\* One run of one direction, from its start until a panic of its main task
\* ends it; nothing ends it from outside and nothing starts it again.
NextRun ==
    \/ \E e \in EventIds, t \in Stamps : Publish(e, t)
    \/ \E p \in Procs :
         \/ (\A q \in Procs : runs[q] = 0) /\ other_run = NoRun /\ Start(p)
         \/ cycles < MaxCycles /\ Wake(p)
         \/ Step(p)
    \/ (\A q \in Procs : runs[q] = 0) /\ \E d \in OtherDirections : RunOther(d)

RunSpec == Init /\ [][NextRun]_vars

\* One run of one direction against a relay that can hold more matching
\* events than the limit of the filter.
LimitSpec == InitSmallLimit /\ [][NextRun]_vars

\* The step taken was one without a failure: no call of the main task
\* returned an error, the consumer met no malformed content and every POST
\* was answered with success.
NoFault(p) ==
    /\ pc'[p] # "down"
    /\ skipped'[p] = skipped[p]
    /\ rx_alive'[p] = rx_alive[p]
    /\ status'[p] \in {"none", "success"}

\* The n2w process and the n2i process side by side on the same database,
\* each started once, in a run without failures.
NextShared ==
    \/ \E e \in EventIds, t \in Stamps : Publish(e, t)
    \/ \E p \in Procs :
         \/ cycles < MaxSharedCycles /\ Start(p) /\ pc'[p] # "down"
         \/ cycles < MaxSharedCycles /\ Wake(p)
         \/ Step(p) /\ NoFault(p)

SharedSpec == Init /\ [][NextShared]_vars

\* ------------------------------------------- the Storage methods, directly
\* A caller runs the methods of Storage one after the other on the migrated
\* database, with arguments of its choice.
CallGetLastUpdate(init) ==
    /\ last_update' = get_last_update(last_update, init)[2]
    /\ call' = [op |-> "get_last_update", arg |-> init, ok |-> TRUE,
                ret |-> get_last_update(last_update, init)[1], some |-> FALSE,
                written |-> IF last_update = <<>> THEN init ELSE call.written,
                backend |-> call.backend,
                lu_before |-> last_update, ne_before |-> nostr_event]
    /\ UNCHANGED <<nostr_event, pipevars, w2nvars, limitvars, other_run>>

CallUpdateLastUpdate(last) ==
    /\ last_update' = update_last_update(last_update, last)
    /\ call' = [op |-> "update_last_update", arg |-> last, ok |-> TRUE,
                ret |-> 0, some |-> FALSE,
                written |-> IF last_update = <<>> THEN call.written ELSE last,
                backend |-> call.backend,
                lu_before |-> last_update, ne_before |-> nostr_event]
    /\ UNCHANGED <<nostr_event, pipevars, w2nvars, limitvars, other_run>>

CallIsEventExisted(id, query_ok) ==
    /\ call' = [op |-> "is_event_existed", arg |-> id, ok |-> query_ok,
                ret |-> 0, some |-> is_event_existed(nostr_event, id, query_ok),
                written |-> call.written,
                backend |-> call.backend,
                lu_before |-> last_update, ne_before |-> nostr_event]
    /\ UNCHANGED <<last_update, nostr_event, pipevars, w2nvars, limitvars, other_run>>

CallAddNewEvent(id) ==
    /\ nostr_event[id] < MaxRows
    /\ nostr_event' = add_new_event(nostr_event, id)
    /\ call' = [op |-> "add_new_event", arg |-> id, ok |-> TRUE,
                ret |-> 0, some |-> FALSE, written |-> call.written,
                backend |-> call.backend,
                lu_before |-> last_update, ne_before |-> nostr_event]
    /\ UNCHANGED <<last_update, pipevars, w2nvars, limitvars, other_run>>

\* `migrate --db-url ..` run against the database: MigrateCmd::run unwraps
\* setup_db's result.  One deployment has one backend: the first call
\* fixes it.
CallSetupDb(backend, in_use) ==
    /\ call.backend \in {"none", backend}
    /\ last_update' = setup_db(backend, in_use, last_update, nostr_event)[2]
    /\ nostr_event' = setup_db(backend, in_use, last_update, nostr_event)[3]
    /\ call' = [op |-> "setup_db", arg |-> 0,
                ok |-> setup_db(backend, in_use, last_update, nostr_event)[1] = "Ok",
                ret |-> 0, some |-> FALSE, written |-> call.written,
                backend |-> backend,
                lu_before |-> last_update, ne_before |-> nostr_event]
    /\ UNCHANGED <<pipevars, w2nvars, limitvars, other_run>>

NextStore ==
    \/ \E backend \in Backends, in_use \in BOOLEAN : CallSetupDb(backend, in_use)
    \/ \E init \in U64 : CallGetLastUpdate(init)
    \/ \E last \in U64 : CallUpdateLastUpdate(last)
    \/ \E id \in EventIds, query_ok \in BOOLEAN : CallIsEventExisted(id, query_ok)
    \/ \E id \in EventIds : CallAddNewEvent(id)

StoreSpec == Init /\ [][NextStore]_vars

\* ------------------------------------------------------------ waku -> nostr
\* The inbound handlers of pubsub.rs.  from_waku_to_nostr attaches
\* listening_message_gowrapper ("gowrapper"); listening_message
\* ("callback") is the public alternative whose call is commented out in
\* app.rs:164, taken here with a channel of the same kind.
Listeners == {"gowrapper", "callback"}

\* What a waku message carries, as the callback tells it apart: a nostr
\* event on the content topic, a message of another content topic, or a
\* payload that is not the JSON of a nostr event.
MsgKinds == {"event", "other_topic", "bad_json"}

relayvars == <<relay, last_update, nostr_event, pc, runs, cycles,
               last_fetch_time, events, chan, rx_alive, w, sent, posted,
               fetched, seen_at_start, logvars, call, limitvars, other_run>>

\* `run -d w2n`: the channel is created and the handler attached.
StartW2n(l) ==
    /\ listener = "none"
    /\ listener' = l
    /\ wrx_alive' = TRUE
    /\ UNCHANGED <<delivered, stdout, wchan, handler, line, got,
                   send_event_calls, waited, relayvars>>

\* tx.send(m) entered by the handler: the message is on the channel when a
\* slot is free, the handler is suspended inside send when none is, and
\* send returns Err when the receiver is gone.  Err is dropped by the
\* gowrapper reader and is the panic of `.expect` in the callback.
tx_send(m) ==
    IF ~wrx_alive
    THEN /\ handler' = IF listener = "callback" THEN "panicked" ELSE "idle"
         /\ line' = 0
         /\ UNCHANGED <<wchan, waited>>
    ELSE IF Len(wchan) < ChanCap
    THEN /\ handler' = "idle"
         /\ line' = 0
         /\ wchan' = Append(wchan, m)
         /\ UNCHANGED waited
    ELSE /\ handler' = "blocked"
         /\ line' = m
         /\ waited' = waited \cup {m}
         /\ UNCHANGED wchan

\* The waku child process prints a line for a message; its write waits
\* while the pipe is full.
ChildWrites ==
    /\ listener = "gowrapper"
    /\ delivered < MaxMsgs
    /\ Len(stdout) < PipeCap
    /\ delivered' = delivered + 1
    /\ stdout' = Append(stdout, delivered + 1)
    /\ UNCHANGED <<listener, wchan, wrx_alive, handler, line, got,
                   send_event_calls, waited, relayvars>>

\* One iteration of `for line in reader.lines()`: the line is read and
\* sent on the channel.
ReadLine ==
    /\ listener = "gowrapper"
    /\ handler = "idle"
    /\ stdout # <<>>
    /\ stdout' = Tail(stdout)
    /\ tx_send(Head(stdout))
    /\ UNCHANGED <<listener, delivered, wrx_alive, got, send_event_calls,
                   relayvars>>

\* The waku node calls the closure given to waku_set_event_callback on its
\* delivery thread.  A message of another content topic returns at once, a
\* payload that does not parse is logged, an event is sent with
\* block_on(tx.send(event)).expect(..).
Callback(kind) ==
    /\ listener = "callback"
    /\ handler = "idle"
    /\ delivered < MaxMsgs
    /\ delivered' = delivered + 1
    /\ IF kind = "event"
       THEN tx_send(delivered + 1)
       ELSE UNCHANGED <<handler, line, wchan, waited>>
    /\ UNCHANGED <<listener, stdout, wrx_alive, got, send_event_calls,
                   relayvars>>

\* The handler suspended in tx.send goes on: a slot came free or the
\* receiver went away.
SendResumes ==
    /\ handler = "blocked"
    /\ ~wrx_alive \/ Len(wchan) < ChanCap
    /\ tx_send(line)
    /\ UNCHANGED <<listener, delivered, stdout, wrx_alive, got,
                   send_event_calls, relayvars>>

\* One iteration of `while let Some(event) = rx.recv().await`: the event
\* is logged; the call of nclient.send_event is commented out.
LoopRecv ==
    /\ wrx_alive
    /\ wchan # <<>>
    /\ wchan' = Tail(wchan)
    /\ got' = got \cup {Head(wchan)}
    /\ send_event_calls' = send_event_calls
    /\ UNCHANGED <<listener, delivered, stdout, wrx_alive, handler, line,
                   waited, relayvars>>

\* The receiving half is dropped (the future of from_waku_to_nostr is
\* dropped): what waits on the channel is gone with it.
DropReceiver ==
    /\ wrx_alive
    /\ wrx_alive' = FALSE
    /\ wchan' = <<>>
    /\ UNCHANGED <<listener, delivered, stdout, handler, line, got,
                   send_event_calls, waited, relayvars>>

\* Whether the thread that delivers waku messages is stopped by the
\* handler: in the callback it is the thread that runs the handler; with
\* the child process it is the child's writer once the pipe is full and
\* nobody reads it.
backend_stalled ==
    \/ listener = "callback" /\ handler \in {"blocked", "panicked"}
    \/ listener = "gowrapper" /\ handler = "blocked" /\ Len(stdout) = PipeCap

NextWaku ==
    \/ \E l \in Listeners : StartW2n(l)
    \/ ChildWrites
    \/ ReadLine
    \/ \E kind \in MsgKinds : Callback(kind)
    \/ SendResumes
    \/ LoopRecv
    \/ DropReceiver

WakuSpec == Init /\ [][NextWaku]_vars


\* ------------------------------------------------------------- properties

\* C1: within one run of a pipeline no event id is sent on the channel more
\* than once, whatever the fetches return.
NoDuplicateForwarding ==
    \A p \in Procs : \A e \in EventIds : sent[p][e] <= 1

\* C2: at-least-once delivery, as far as a finite run shows it: an event that
\* a fetch returned and that no outbound POST was made for is still on its
\* way (in the batch being iterated or in the channel) or will be returned
\* again by a fetch from the stored watermark (created_at >= watermark).  In
\* any other state the event is never handed to the outbound call: under Spec
\* the stored watermark never decreases.
AtLeastOnce ==
    \A p \in Procs : \A e \in fetched[p] \ posted[p] :
        \/ e \in Range(events[p])
        \/ e \in Range(chan[p])
        \/ relay[e] >= WatermarkOf(p)

\* C3: a run never sends on the channel an event whose id the ledger held
\* when the run started.
RestartForwardsOnlyNew ==
    \A p \in Procs : \A e \in seen_at_start[p] : sent[p][e] = 0

\* C4: with the receiver alive and the channel full, tx.send does not return
\* (the loop stays at the send with the same event); a send that returns with
\* the receiver alive has put its event at the back of the channel; and the
\* only way an event leaves the channel of a live receiver is from the front,
\* into the consumer's POST.
BackpressureNoLoss ==
    [][\A p \in Procs :
         /\ (pc[p] = "send" /\ rx_alive[p] /\ Len(chan[p]) = ChanCap)
                => /\ pc'[p] \in {"send", "down"}
                   /\ pc'[p] = "send" => events'[p] = events[p]
         /\ (pc[p] = "send" /\ rx_alive[p] /\ pc'[p] \notin {"send", "down"})
                => chan'[p] = Append(chan[p], Head(events[p]))
         /\ (pc'[p] # "down" /\ rx_alive'[p] /\ chan'[p] # chan[p])
                => \/ pc[p] = "send" /\ chan'[p] = Append(chan[p], Head(events[p]))
                   \/ /\ chan[p] # <<>>
                      /\ chan'[p] = Tail(chan[p])
                      /\ Head(chan[p]) \in posted'[p]
      ]_vars

\* C4, witness: the loop waits at tx.send on a full channel whose consumer is
\* alive and has delivered an event before.
BackpressureWitness ==
    \E p \in Procs :
        /\ pc[p] = "send"
        /\ rx_alive[p]
        /\ Len(chan[p]) = ChanCap
        /\ posted[p] # {}

\* C5: the values get_last_update returns to one direction never decrease.
WatermarkMonotone ==
    [][\A p \in Procs : w'[p] >= w[p]]_vars

\* C6: update_last_update(candidate) leaves the stored watermark at
\* max(current, candidate).
UpdateKeepsMax ==
    [][\A p \in Procs :
         (pc[p] = "update" /\ pc'[p] = "sleep")
            => WatermarkOf(p)' = Max(WatermarkOf(p), last_fetch_time[p])
      ]_vars

\* C7: the watermark write of one direction leaves the watermark every other
\* direction reads as it was.
DirectionIsolation ==
    [][\A p \in Procs :
         (pc[p] = "update" /\ pc'[p] = "sleep")
            => \A q \in Procs \ {p} : WatermarkOf(q)' = WatermarkOf(q)
      ]_vars

\* C8: a successful is_event_existed(id) answers Some exactly when the ledger
\* holds a row for id, that is when add_new_event(id) was called before.
IsEventExistedIffRecorded ==
    (call.op = "is_event_existed" /\ call.ok)
        => (call.some <=> call.ne_before[call.arg] > 0)

\* C9: the ledger never holds two rows with the same event_id.
LedgerUnique ==
    \A e \in EventIds : nostr_event[e] <= 1

\* C10: with a watermark row, get_last_update(init) returns the value last
\* written and leaves the table as it was; with none, it returns init and
\* leaves one row, from which any further call returns init again and
\* changes nothing.
GetLastUpdateContract ==
    call.op = "get_last_update" =>
        /\ call.lu_before # <<>> =>
              /\ call.ret = call.written
              /\ last_update = call.lu_before
        /\ call.lu_before = <<>> =>
              /\ call.ret = call.arg
              /\ Len(last_update) = 1
              /\ \A x \in U64 :
                    get_last_update(last_update, x) = <<call.arg, last_update>>

\* C10, witness: a call that found a row holding a value of the upper half of
\* the u64 range (negative as stored) and was given another init.
GetLastUpdateWitness ==
    /\ call.op = "get_last_update"
    /\ call.lu_before # <<>>
    /\ call.ret >= Half
    /\ call.arg # call.ret

\* The events tx.send put on the channel since the current cycle of p began.
EnqueuedInCycle(p) == {queued[p][i] : i \in (mark[p] + 1)..Len(queued[p])}

\* The first cycle of the first run of p is complete and nothing failed in
\* it: the run found no watermark row (it read 0) and an empty ledger, every
\* ledger lookup was answered and the consumer is running.
FirstCycleDone(p) ==
    /\ pc[p] = "sleep"
    /\ cycles = 1
    /\ w[p] = 0
    /\ seen_at_start[p] = {}
    /\ skipped[p] = {}
    /\ rx_alive[p]

\* C11: a first cycle from watermark 0 and an empty ledger has put every
\* event its fetch returned on the channel exactly once, each is handed to
\* the outbound POST exactly once (made, or next in the channel), and the
\* ledger holds one row for each of them and none for any other id.
UnseenForwardedAndRecorded ==
    \A p \in Procs :
        FirstCycleDone(p) =>
            \A e \in EventIds :
                IF e \in fetched[p]
                THEN /\ Count(queued[p], e) = 1
                     /\ Count(handed[p] \o chan[p], e) = 1
                     /\ nostr_event[e] = 1
                ELSE /\ Count(queued[p], e) = 0
                     /\ Count(handed[p] \o chan[p], e) = 0
                     /\ nostr_event[e] = 0

\* C11, witness: the first cycle fetched two events of different created_at
\* and both were POSTed.
UnseenForwardedWitness ==
    \E p \in Procs :
        /\ FirstCycleDone(p)
        /\ \E a, b \in fetched[p] : relay[a] < relay[b]
        /\ Len(handed[p]) = 2
        /\ chan[p] = <<>>

\* C12: the watermark write that completes a cycle leaves the stored
\* watermark at max(w, created_at of the events put on the channel in this
\* cycle), w being the value the cycle read at its start.
WatermarkIsMaxOfEnqueued ==
    [][\A p \in Procs :
         (pc[p] = "update" /\ pc'[p] = "sleep")
            => WatermarkOf(p)' = Max(w[p], MaxStamp(relay, EnqueuedInCycle(p)))
      ]_vars

\* s is an initial part of t.
IsPrefix(s, t) == Len(s) <= Len(t) /\ s = SubSeq(t, 1, Len(s))

\* C13: the events are handed to the outbound POST in the order tx.send put
\* them on the channel, which is the order the loop iterated them: the
\* POSTs made are an initial part of the sends, and while the consumer runs
\* the rest of the sends is the content of the channel, oldest first.
OrderPreserved ==
    \A p \in Procs :
        /\ IsPrefix(handed[p], queued[p])
        /\ rx_alive[p] => queued[p] = handed[p] \o chan[p]

\* C13, witness: the channel holds two different events behind one that was
\* POSTed already.
OrderPreservedWitness ==
    \E p \in Procs :
        /\ rx_alive[p]
        /\ handed[p] # <<>>
        /\ Len(chan[p]) >= 2
        /\ chan[p][1] # chan[p][2]

\* C14: the channel never holds more events than its capacity.
BoundedBuffering ==
    \A p \in Procs : Len(chan[p]) <= ChanCap

\* C14, witness: the channel is full and the loop has a further event to send.
BoundedBufferingWitness ==
    \E p \in Procs : Len(chan[p]) = ChanCap /\ events[p] # <<>>

\* C15: no run of a pipeline is ended by a failed fetch.
FetchFailureKeepsRunning ==
    \A p \in Procs : ~(pc[p] = "down" /\ panicked[p] = "fetch_from_relay")

\* C16: when a cycle is complete, every event of it whose ledger lookup
\* failed is at or above the stored watermark, so that the next fetch
\* returns it again.
StoreFailureKeepsRange ==
    \A p \in Procs :
        pc[p] = "sleep" => \A e \in skipped[p] : relay[e] >= WatermarkOf(p)

\* C17: an outbound call that fails for an event attempted fewer than 4
\* times leaves the event with the consumer, first in line, to be tried
\* again.
FailedCallIsRetried ==
    [][\A p \in Procs :
         ( /\ rx_alive[p]
           /\ chan[p] # <<>>
           /\ handed'[p] = post(handed[p], Head(chan[p]))
           /\ status'[p] \in {"status_error", "send_error"}
           /\ Count(handed'[p], Head(chan[p])) < 4 )
            => (rx_alive'[p] /\ chan'[p] = chan[p])
      ]_vars

\* C18: a consumer that takes an event with malformed content goes on to the
\* next event of the channel.
MalformedIsSkipped ==
    [][\A p \in Procs :
         ( /\ rx_alive[p]
           /\ chan[p] # <<>>
           /\ pc'[p] # "down"
           /\ chan'[p] # chan[p]
           /\ Head(chan[p]) \in malformed' )
            => (rx_alive'[p] /\ chan'[p] = Tail(chan[p]))
      ]_vars

\* C19: in a running process the consumer is still there after an outbound
\* call failed at the transport level, to forward what is enqueued next.
ConsumerSurvivesSendError ==
    \A p \in Procs :
        (pc[p] # "down" /\ status[p] = "send_error") => rx_alive[p]

\* The step takes an event from the channel of p's running consumer.
Dequeued(p) ==
    /\ rx_alive[p]
    /\ pc'[p] # "down"
    /\ Len(chan'[p]) < Len(chan[p])

\* C20 as stated: every event taken from the channel causes exactly one POST,
\* of that event.
OneRequestPerDequeue ==
    [][\A p \in Procs :
         Dequeued(p) => handed'[p] = Append(handed[p], Head(chan[p]))
      ]_vars

\* C20: an event taken from the channel causes one POST, of that event, unless
\* it is an event of n2i whose content is malformed, which causes none; no
\* other step makes a POST.
AtMostOneRequestPerDequeue ==
    [][\A p \in Procs :
         /\ Dequeued(p) =>
               IF Head(chan[p]) \in malformed'
               THEN p = "n2i" /\ handed'[p] = handed[p]
               ELSE handed'[p] = Append(handed[p], Head(chan[p]))
         /\ ~Dequeued(p) => handed'[p] \in {handed[p], <<>>}
      ]_vars

\* C20, witness: the n2i consumer POSTed one event and then took one with
\* malformed content.
OneRequestWitness ==
    /\ status["n2i"] = "malformed"
    /\ handed["n2i"] # <<>>
    /\ malformed # {}

\* C21: the forwarding step yields an error to its caller when the target
\* answered with a non-success status or the request failed at the network
\* level, and yields success only for a success status.
ForwardFailureReported ==
    \A p \in Procs :
        /\ status[p] \in {"status_error", "send_error"}
              => forward_result(p, status[p]) = "Err"
        /\ forward_result(p, status[p]) = "Ok" => status[p] = "success"

\* C23: every event a fetch returned whose created_at is at or below the
\* stored watermark has had its outbound POST made.
WatermarkMeansProcessed ==
    \A p \in Procs :
        last_update # <<>> =>
            \A e \in fetched[p] : relay[e] <= WatermarkOf(p) => e \in posted[p]

\* C24: the fetch loop of a running pipeline stops only when the process is
\* ended from outside.
LoopStopsOnlyOnSignal ==
    [][\A p \in Procs :
         (pc[p] # "down" /\ pc'[p] = "down") => panicked'[p] = "none"
      ]_vars

\* C26: every event in the channel or handed to the outbound POST has a row
\* in the ledger.
RecordBeforeEnqueue ==
    \A p \in Procs :
        \A e \in Range(chan[p]) \cup Range(handed[p]) : nostr_event[e] > 0

\* C26, witness: the consumer has POSTed an event while another waits in
\* the channel.
RecordBeforeEnqueueWitness ==
    \E p \in Procs :
        /\ handed[p] # <<>>
        /\ chan[p] # <<>>
        /\ Head(chan[p]) \notin Range(handed[p])

\* The step writes the watermark table on behalf of p's fetch loop.
WritesWatermark(p) == pc[p] \notin {"down", "sleep"} /\ last_update' # last_update

\* C27: the fetch loop changes the stored watermark only by the insert of
\* get_last_update's None arm, before the fetch, and by update_last_update
\* with the whole batch iterated, after which the cycle is over: never
\* between two events of a batch and once per cycle.
WatermarkWrittenLast ==
    [][\A p \in Procs :
         WritesWatermark(p) =>
            \/ pc[p] = "get_insert" /\ pc'[p] = "fetch"
            \/ pc[p] = "update" /\ events[p] = <<>> /\ pc'[p] = "sleep"
      ]_vars

\* C27, witness: a cycle that sent two events has ended and left a watermark
\* above the one it read.
WatermarkWrittenLastWitness ==
    \E p \in Procs :
        /\ pc[p] = "sleep"
        /\ Cardinality(EnqueuedInCycle(p)) = 2
        /\ WatermarkOf(p) > w[p]

\* C28: once the consumer task of a running pipeline has ended, the fetch
\* loop records no further id and leaves the watermark as it is.
NoRecordingWithoutConsumer ==
    [][\A p \in Procs :
         (pc[p] # "down" /\ pc'[p] # "down" /\ ~rx_alive[p])
            => (nostr_event' = nostr_event /\ last_update' = last_update)
      ]_vars
\* C25: when load_config, Storage::new, NostrClient::new or WakuClient::new
\* fails, the run command ends with a non-zero exit code and no pipeline
\* step has run: nothing fetched, no ledger or watermark row written, no
\* event handed to the outbound call.
FailFastStartup ==
    \A p \in Procs : panicked[p] \in StartupCalls =>
        /\ pc[p] = "down"
        /\ exit_code(p) # 0
        /\ fetched[p] = {} /\ posted[p] = {} /\ handed[p] = <<>>
        /\ last_update = <<>>
        /\ \A e \in EventIds : nostr_event[e] = 0

FailFastStartupWitness ==
    \E p \in Procs : /\ panicked[p] = "WakuClient::new"
                     /\ \E e \in EventIds : relay[e] > 0
\* C30: `migrate` run against a database that holds a watermark row and
\* ledger rows leaves both tables as they were, whatever the backend.
MigratePreservesRows ==
    (call.op = "setup_db" /\ call.ok) =>
        /\ last_update = call.lu_before
        /\ nostr_event = call.ne_before
\* C22: in the waku -> nostr direction every message the loop received
\* from the waku subscription has been passed to NostrClient::send_event
\* once the loop is back at rx.recv.
ReceivedIsPublished ==
    \A m \in got : m \in send_event_calls

\* C29: the inbound handler never stops the thread that delivers waku
\* messages, also when the channel is full or its receiver is gone.
HandlerNeverStallsBackend ==
    ~backend_stalled
\* C31: the watermark is never advanced past the created_at of an event
\* that matched a fetch and was left out of its batch by the limit, as long
\* as no fetch has returned that event.
LimitLosesNoEvent ==
    \A p \in Procs : \A e \in cut[p] \ fetched[p] :
        last_update # <<>> => WatermarkOf(p) <= relay[e]
\* C32: once a get_last_update of a pipeline has returned, whatever the
\* interleaving of the pipelines that started on the empty table, the
\* table last_update holds exactly one row.
SingleWatermarkRecord ==
    (\E p \in Procs : pc[p] \notin {"down", "get_find", "get_insert"})
        => Len(last_update) = 1
\* C33: a `run` whose direction is none of n2w, w2n, n2i has ended (it
\* returned, or a startup call panicked) and no pipeline was started: no
\* process stands in a pipeline, nothing was fetched, no ledger or
\* watermark row was written, no outbound call was made, no waku handler
\* was attached.
UnknownDirectionStartsNothing ==
    other_run # NoRun =>
        /\ other_run[2] \in StartupCalls \cup {"returned"}
        /\ \A p \in Procs : /\ pc[p] = "down"
                            /\ fetched[p] = {} /\ posted[p] = {}
                            /\ handed[p] = <<>> /\ queued[p] = <<>>
        /\ last_update = <<>>
        /\ \A e \in EventIds : nostr_event[e] = 0
        /\ listener = "none" /\ send_event_calls = {}

UnknownDirectionWitness ==
    /\ other_run[2] = "returned"
    /\ \E e \in EventIds : relay[e] > 0
====
